---- MODULE Spec2Model ----
(***************************************************************************)
(* SchoolLink (src/src/App.jsx): the application state of the App          *)
(* component (session, role, view, cached collections), the retry wrapper  *)
(* withRetry, the snapshot handlers and the write handlers of the forms.   *)
(*                                                                         *)
(* null is the string "null" for names and messages, and the empty         *)
(* sequence <<>> for an optional value whose presence is <<value>>.        *)
(***************************************************************************)
EXTENDS Integers, Sequences, FiniteSets, TLC

VARIABLES
    \* Firebase state of App (793-795) and the identity provider behind it
    pcInit,       \* "start" before the initialization effect ran, then "done"
                  \* (the auth observer is registered) or "failed"
    mounted,      \* TRUE while App is mounted: until it is disposed of, or React
                  \* unmounts the tree because an effect threw
    db,           \* TRUE when the store handle is set (db and auth are set together)
    isAuthReady,
    authUser,     \* the provider's current user, "null" or a uid
    authQ,        \* auth-state notifications not yet delivered to the observer
    cbAwait,      \* the sign-ins awaited by suspended observer callback runs
    \* App state (798-802)
    userRole, targetRole, userId, view, selectedEvent,
    \* data state (805-808)
    events, notices, scores, error,
    listeners,    \* the onSnapshot listeners opened so far, each with its collection,
                  \* the effect run that opened it, whether the store ended it with
                  \* an error, how often it was unsubscribed, and whether a
                  \* registered cleanup holds its unsubscribe function
    fetchedEvents,\* the events snapshot handled last, as the handler read it
    prevSeeds,    \* the seed events shown before the events snapshot handled last
    store,        \* the documents of the three collections in the document store
    calMonth,     \* year * 12 + month - 1 of EventCalendarView's date (244), 0 when unmounted
    form,         \* the state of the component of the current view (its useState values)
    tasks,        \* the withRetry calls in progress (and, for a bare operation, finished)
    published,    \* per event id, the data of the score publication that succeeded last
    clock,        \* the reading of new Date() at the latest write submission
    cap,          \* how many write submissions the run explores
    last          \* the handler or step that produced the current state

sessionVars == <<pcInit, mounted, db, isAuthReady, authUser, authQ, cbAwait, userId>>
navVars == <<userRole, targetRole, view, selectedEvent, calMonth, form>>
dataVars == <<events, notices, scores, error, listeners, fetchedEvents, prevSeeds>>
writeVars == <<store, tasks, published, clock, cap>>
vars == <<sessionVars, navVars, dataVars, writeVars, last>>

----------------------------------------------------------------------------
(* Bounds of the model *)

\* largest maxRetries argument tried for withRetry called on its own
MaxRetriesArg == 4

\* the most auth-state notifications waiting for the observer
MaxPending == 2

\* the most documents the events collection of the store holds
MaxLive == 2

\* what an arbitrary operation passed to withRetry may return or throw
Results == {"r1", "r2"}
Errors == {"e1", "e2"}

----------------------------------------------------------------------------
(* withRetry, App.jsx 51-61 *)

\* the default value of the maxRetries parameter
DefaultMaxRetries == 3

RECURSIVE Pow2(_)
Pow2(n) == IF n = 0 THEN 1 ELSE 2 * Pow2(n - 1)

\* a linear backoff in place of the exponential one
RetryDelayLinear(i) == (i + 1) * 1000
\* const delay = Math.pow(2, i) * 1000
RetryDelay(i) == Pow2(i) * 1000

\* the same test one attempt late
IsLastAttemptLate(i, max) == i = max
\* i === maxRetries - 1
IsLastAttempt(i, max) == i = max - 1

\* withRetry(fn, max) entered: i = 0; the loop test; fn() invoked when it passes.
\* pc: "call" = awaiting fn(), "sleep" = awaiting the timer,
\*     "returned" / "threw" = the promise of withRetry settled.
\* calls counts the invocations of fn and delays lists the timer delays asked
\* for; log is the operation's own record of how each invocation ended, kept
\* by the operation (the actions below), not by withRetry.
NewTask(kind, payload, max) ==
    [kind |-> kind, payload |-> payload, max |-> max, i |-> 0,
     pc |-> IF 0 < max THEN "call" ELSE "returned",
     calls |-> IF 0 < max THEN 1 ELSE 0,
     delays |-> <<>>, log |-> <<>>,
     outcome |-> IF 0 < max THEN "pending" ELSE "undefined"]

\* return await fn()  -- fn() fulfilled with r
TaskResolved(t, r) == [t EXCEPT !.pc = "returned", !.outcome = r]

\* a catch block that always waits and tries again
TaskRejectedRetrying(t, e) == [t EXCEPT !.pc = "sleep", !.delays = Append(@, RetryDelay(t.i))]

\* catch (error) { if (i === maxRetries - 1) throw error; ... setTimeout(resolve, delay) }
TaskRejected(t, e) ==
    IF IsLastAttempt(t.i, t.max)
    THEN [t EXCEPT !.pc = "threw", !.outcome = e]
    ELSE [t EXCEPT !.pc = "sleep", !.delays = Append(@, RetryDelay(t.i))]

\* the timer fired: i++, the loop test, fn() invoked again when it passes
TaskWoke(t) ==
    IF t.i + 1 < t.max
    THEN [t EXCEPT !.i = @ + 1, !.pc = "call", !.calls = @ + 1]
    ELSE [t EXCEPT !.i = @ + 1, !.pc = "returned", !.outcome = "undefined"]

\* the operation notes how its invocation ended
Logged(t, x) == [t EXCEPT !.log = Append(@, x)]

----------------------------------------------------------------------------
(* withRetry on its own, around an arbitrary operation *)

\* the operation's promise is fulfilled
OpResolve ==
    /\ Len(tasks) = 1 /\ tasks[1].kind = "op" /\ tasks[1].pc = "call"
    /\ \E r \in Results : tasks' = <<Logged(TaskResolved(tasks[1], r), r)>>
    /\ last' = "OpResolve"
    /\ UNCHANGED <<sessionVars, navVars, dataVars, store, published, clock, cap>>

\* the operation's promise is rejected
OpReject ==
    /\ Len(tasks) = 1 /\ tasks[1].kind = "op" /\ tasks[1].pc = "call"
    /\ \E e \in Errors : tasks' = <<Logged(TaskRejected(tasks[1], e), e)>>
    /\ last' = "OpReject"
    /\ UNCHANGED <<sessionVars, navVars, dataVars, store, published, clock, cap>>

\* the backoff timer of the call fires
OpWake ==
    /\ Len(tasks) = 1 /\ tasks[1].kind = "op" /\ tasks[1].pc = "sleep"
    /\ tasks' = <<TaskWoke(tasks[1])>>
    /\ last' = "OpWake"
    /\ UNCHANGED <<sessionVars, navVars, dataVars, store, published, clock, cap>>

NextRetry == OpResolve \/ OpReject \/ OpWake

----------------------------------------------------------------------------
(* Constants of the program *)

\* MOCK_EVENTS (35-41): id, title and date; a date 'YYYY-MM-DD' is <<Y, M, D>>
MOCK_EVENTS ==
    << [id |-> "1", title |-> "Sports Day",                  date |-> <<2025, 10, 15>>],
       [id |-> "2", title |-> "Essay Writing Competition",   date |-> <<2025, 11, 5>>],
       [id |-> "3", title |-> "Model United Nations (MUN)",  date |-> <<2025, 11, 20>>],
       [id |-> "4", title |-> "Photography Contest",         date |-> <<2025, 12, 1>>],
       [id |-> "5", title |-> "Talent Hunt",                 date |-> <<2025, 12, 15>>] >>

Roles == {"Teacher", "Student"}

\* the view names renderView switches on (918-947)
Views == {"InitialRoleChoice", "Login", "TeacherDashboard", "StudentDashboard",
          "EventCalendar", "EventDetails", "AddEvent", "AddScores", "ViewResults",
          "NoticeBoard", "StudentProfile"}

\* the DashboardLink targets of TeacherDashboard (728-731) and StudentDashboard (743-746)
TeacherLinks == {"EventCalendar", "AddEvent", "NoticeBoard", "AddScores"}
StudentLinks == {"EventCalendar", "NoticeBoard", "ViewResults", "StudentProfile"}

\* the dashboard named without looking at the role, as 621 and 781 name it
DashboardOfStudent(role) == "StudentDashboard"

\* userRole === 'Teacher' ? 'TeacherDashboard' : 'StudentDashboard' (361, 710, 894)
DashboardOf(role) == IF role = "Teacher" THEN "TeacherDashboard" ELSE "StudentDashboard"

----------------------------------------------------------------------------
(* Dates, as EventCalendarView and EventDetailsView read them *)

MonthIndex(y, m) == y * 12 + (m - 1)

\* new Date(e.date).getMonth() / .getFullYear() (277): a date-only string is
\* midnight UTC, read back in local time; behind UTC that is the evening before,
\* so the first day of a month reads as the month before
LocalMonthIndex(date, west) ==
    IF west /\ date[3] = 1 THEN MonthIndex(date[1], date[2]) - 1
    ELSE MonthIndex(date[1], date[2])

\* new Date(a.date) - new Date(b.date) (321) compares the instants
DateKey(date) == date[1] * 10000 + date[2] * 100 + date[3]

\* events.filter(e => new Date(e.date).getMonth() === currentMonth &&
\*                    new Date(e.date).getFullYear() === currentYear) (277)
RECURSIVE EventsOfMonth(_, _, _)
EventsOfMonth(seq, month, west) ==
    IF seq = <<>> THEN <<>>
    ELSE IF LocalMonthIndex(Head(seq).date, west) = month
         THEN <<Head(seq)>> \o EventsOfMonth(Tail(seq), month, west)
         ELSE EventsOfMonth(Tail(seq), month, west)

\* one element inserted after the elements of a sorted list that are not later
RECURSIVE InsertByDate(_, _)
InsertByDate(e, sorted) ==
    IF sorted = <<>> THEN <<e>>
    ELSE IF DateKey(Head(sorted).date) <= DateKey(e.date)
         THEN <<Head(sorted)>> \o InsertByDate(e, Tail(sorted))
         ELSE <<e>> \o sorted

\* listToDisplay.sort((a, b) => new Date(a.date) - new Date(b.date)) (321): stable
RECURSIVE SortByDate(_)
SortByDate(seq) ==
    IF seq = <<>> THEN <<>>
    ELSE InsertByDate(seq[Len(seq)], SortByDate(SubSeq(seq, 1, Len(seq) - 1)))

----------------------------------------------------------------------------
(* What renderView shows (898-948) *)

Collections == {"events", "notices", "scores"}

\* the uids the identity provider hands out
Uids == {"u1", "u2"}

\* App is mounted and renderView reaches its switch and the case of view v:
\* no error, session ready
Shown(v) == mounted /\ error = "null" /\ isAuthReady /\ view = v

\* the same switch with the notice board behind the Teacher test as well
CaseRendersTeacherOnly(v, role, handle) ==
    CASE v \in {"AddEvent", "AddScores", "NoticeBoard"} -> role = "Teacher" /\ handle
      [] OTHER -> TRUE

\* the same switch with the two Teacher forms open to whoever is logged in
CaseRendersLoggedIn(v, role, handle) ==
    CASE v \in {"AddEvent", "AddScores"} -> role # "null" /\ handle
      [] v = "NoticeBoard" -> handle
      [] OTHER -> TRUE

\* the switch cases that render their view only behind a test (932-942)
CaseRenders(v, role, handle) ==
    CASE v \in {"AddEvent", "AddScores"} -> role = "Teacher" /\ handle
      [] v = "NoticeBoard" -> handle
      [] OTHER -> TRUE

\* the component of view v is on screen, so its buttons can be pressed
OnScreen(v) == Shown(v) /\ CaseRenders(v, userRole, db)

\* what renderView returns: the error screen (899-905), the loading screen
\* (907-916), else the component of the view or the text put in its place
RenderView(err, ready, v, role, handle) ==
    IF err # "null" THEN "error"
    ELSE IF ~ready THEN "Loading SchoolLink..."
    ELSE IF CaseRenders(v, role, handle) THEN v
    ELSE IF v = "NoticeBoard" THEN "Loading Notices..."
    ELSE "Access Denied"

Screen == RenderView(error, isAuthReady, view, userRole, db)

----------------------------------------------------------------------------
(* Effect 2, data fetching (841-882), run by React when db or isAuthReady changed *)

\* the order in which the effect opens its listeners (847, 859, 869)
OpenOrder == <<"events", "notices", "scores">>

\* a listener receives snapshots: the store did not end it, nobody unsubscribed it
IsOpen(l) == ~l.failed /\ l.unsubs = 0
ListenerOpen(c) == \E l \in listeners : l.coll = c /\ IsOpen(l)

\* the cleanup the effect returned (877-881), run by React before the effect
\* runs again and when App is unmounted: it calls the unsubscribe function of
\* each listener of its run, once
RunCleanup(ls) ==
    {IF l.cleanup THEN [l EXCEPT !.unsubs = @ + 1, !.cleanup = FALSE] ELSE l : l \in ls}

\* the number of the next effect run that opens listeners
NextRun(ls) == Cardinality({l.run : l \in ls}) + 1

\* the first n onSnapshot calls of a run; its cleanup is returned, and so
\* registered, only when all three calls returned
Opened(run, n) ==
    {[coll |-> OpenOrder[k], run |-> run, failed |-> FALSE, unsubs |-> 0,
      cleanup |-> (n = Len(OpenOrder))] : k \in 1..n}

\* an effect with no dependency list, run again after every render
EffectRunsAlways(newDb, newReady) == TRUE
\* the dependency test of the effect (882): it runs again when db or
\* isAuthReady changed
EffectRuns(newDb, newReady) == <<newDb, newReady>> # <<db, isAuthReady>>

\* a guard on the store handle alone
EffectPassesOnDb(newDb, newReady) == newDb
\* the guard of line 842
EffectPasses(newDb, newReady) == newDb /\ newReady

\* the listeners after the effect ran again: the cleanup of the run before,
\* then, past the guard, n of the three onSnapshot calls
ListenersAfterEffect(newDb, newReady, n) ==
    IF EffectPasses(newDb, newReady)
    THEN RunCleanup(listeners) \cup Opened(NextRun(listeners), n)
    ELSE RunCleanup(listeners)

\* setError(null) run before the guard is looked at
ErrorAfterEffectCleared(newDb, newReady, err) == "null"

\* setError(null) of line 843, only past the guard
ErrorAfterEffect(newDb, newReady, err) ==
    IF EffectPasses(newDb, newReady) THEN "null" ELSE err

\* the state left by a step that sets db and isAuthReady to the given values.
\* A query or onSnapshot call of the effect may throw (nothing in the effect
\* catches it): the calls before it have opened their listeners, no cleanup is
\* returned, and React, with no error boundary, unmounts the tree
SetSession(newDb, newReady, err) ==
    /\ db' = newDb
    /\ isAuthReady' = newReady
    /\ IF EffectRuns(newDb, newReady)
       THEN /\ error' = ErrorAfterEffect(newDb, newReady, err)
            /\ IF EffectPasses(newDb, newReady)
               THEN \E n \in 0..Len(OpenOrder) :
                      /\ listeners' = ListenersAfterEffect(newDb, newReady, n)
                      /\ mounted' = (n = Len(OpenOrder))
               ELSE /\ listeners' = ListenersAfterEffect(newDb, newReady, 0)
                    /\ mounted' = mounted
       ELSE /\ listeners' = listeners
            /\ error' = err
            /\ mounted' = mounted

\* App is disposed of: React runs the registered cleanups
Unmount ==
    /\ mounted
    /\ mounted' = FALSE
    /\ listeners' = RunCleanup(listeners)
    /\ last' = "Unmount"
    /\ UNCHANGED <<pcInit, db, isAuthReady, authUser, authQ, cbAwait, userId, navVars,
                   writeVars, events, notices, scores, error, fetchedEvents, prevSeeds>>

----------------------------------------------------------------------------
(* Effect 1, initialization and authentication (811-838) *)

\* initializeApp, getFirestore, getAuth, setDb, setAuth, onAuthStateChanged all pass:
\* the observer is registered and will be told the provider's current user
InitOk ==
    /\ mounted /\ pcInit = "start"
    /\ pcInit' = "done"
    /\ SetSession(TRUE, isAuthReady, error)
    /\ authQ' = Append(authQ, authUser)
    /\ last' = "InitOk"
    /\ UNCHANGED <<authUser, cbAwait, userId, navVars, events, notices, scores, fetchedEvents,
                   prevSeeds, writeVars>>

\* one of the calls throws: before setDb (813-815), or after it (824); the catch
\* sets the error (834-837)
InitFail ==
    /\ mounted /\ pcInit = "start"
    /\ pcInit' = "failed"
    /\ \E dbSet \in BOOLEAN :
         SetSession(dbSet, isAuthReady, "Failed to initialize Firebase services.")
    /\ last' = "InitFail"
    /\ UNCHANGED <<authUser, authQ, cbAwait, userId, navVars, events, notices, scores,
                   fetchedEvents, prevSeeds, writeVars>>

\* the observer callback (824-833) called with a user: 825-826, then 832
AuthCallbackUser ==
    /\ mounted /\ authQ # <<>> /\ Head(authQ) # "null"
    /\ authQ' = Tail(authQ)
    /\ userId' = Head(authQ)
    /\ SetSession(db, TRUE, error)
    /\ last' = "AuthCallbackUser"
    /\ UNCHANGED <<pcInit, authUser, cbAwait, navVars, events, notices, scores, fetchedEvents,
                   prevSeeds, writeVars>>

\* the observer callback called with null: it starts signInWithCustomToken when
\* initialAuthToken is configured (827-828), signInAnonymously when not (829-830),
\* and is suspended at the await
SignInCall(tokenConfigured) == IF tokenConfigured THEN "CustomToken" ELSE "Anonymous"

AuthCallbackNull ==
    /\ mounted /\ authQ # <<>> /\ Head(authQ) = "null"
    /\ authQ' = Tail(authQ)
    /\ \E initialAuthToken \in BOOLEAN :
         cbAwait' = Append(cbAwait, SignInCall(initialAuthToken))
    /\ last' = "AuthCallbackNull"
    /\ UNCHANGED <<pcInit, mounted, db, isAuthReady, authUser, userId, navVars, dataVars,
                   writeVars>>

\* the sign-in succeeds: the provider has a user and notifies the observer; the
\* suspended callback resumes and runs line 832
SignInResolved ==
    /\ mounted /\ cbAwait # <<>>
    /\ cbAwait' = Tail(cbAwait)
    /\ \E u \in Uids : authUser' = u /\ authQ' = Append(authQ, u)
    /\ SetSession(db, TRUE, error)
    /\ last' = "SignInResolved" \o Head(cbAwait)
    /\ UNCHANGED <<pcInit, userId, navVars, events, notices, scores, fetchedEvents,
                   prevSeeds, writeVars>>

\* the sign-in fails: the await throws inside the async callback, which ends
\* there; nothing catches the rejection and line 832 is not run
SignInRejected ==
    /\ mounted /\ cbAwait # <<>>
    /\ cbAwait' = Tail(cbAwait)
    /\ last' = "SignInRejected" \o Head(cbAwait)
    /\ UNCHANGED <<pcInit, mounted, db, isAuthReady, authUser, authQ, userId, navVars, dataVars,
                   writeVars>>

\* the provider signs the user out (the user signs out of the project in
\* another tab, or the provider ends a session it no longer accepts) and
\* notifies the observer
ProviderSignsOut ==
    /\ mounted /\ pcInit = "done" /\ authUser # "null"
    /\ Len(authQ) < MaxPending
    /\ authUser' = "null"
    /\ authQ' = Append(authQ, "null")
    /\ last' = "ProviderSignsOut"
    /\ UNCHANGED <<pcInit, mounted, db, isAuthReady, cbAwait, userId, navVars, dataVars,
                   writeVars>>

----------------------------------------------------------------------------
(* Navigation: the handlers of the views *)

\* the months the calendar is opened on and moved through
CalMonths == MonthIndex(2025, 9) .. MonthIndex(2025, 12)

\* mockStudents (455-460)
MockStudents == <<"student-A", "student-B", "student-C", "student-D">>

\* initialScores (465-470)
InitialScores == [k \in 1..Len(MockStudents) |->
                    [studentId |-> MockStudents[k], score |-> "", rank |-> ""]]

\* what is typed in a login field: a word, in upper case or not, with blanks
\* around it or not
Typed == [word : {"teacher", "student", "pass"}, upper : BOOLEAN, blanks : BOOLEAN]
Plain(w) == [word |-> w, upper |-> FALSE, blanks |-> FALSE]

\* the useState initial values of the component of view v (148-150, 369-371,
\* 449-452, 571, 631-633);
\* stamp tells which submission the component is waiting for
NewForm(v) ==
    CASE v = "Login" ->
           [kind |-> v, username |-> Plain(""), password |-> Plain(""), error |-> ""]
      [] v = "AddEvent" ->
           [kind |-> v, title |-> "", date |-> <<>>, description |-> "",
            loading |-> FALSE, message |-> "", stamp |-> 0]
      [] v = "AddScores" ->
           [kind |-> v, selectedEventId |-> "", scoreData |-> <<>>,
            loading |-> FALSE, message |-> "", stamp |-> 0]
      [] v = "ViewResults" ->
           [kind |-> v, selectedScore |-> <<>>]
      [] v = "NoticeBoard" ->
           [kind |-> v, noticeText |-> "",
            loading |-> FALSE, message |-> "", stamp |-> 0]
      [] OTHER -> [kind |-> "none"]

\* setView(v) and the render after it: the component of the view left is
\* unmounted and the one of v mounted with its initial state; EventCalendarView
\* starts on the month of `now` (243-244)
SetView(v) ==
    /\ view' = v
    /\ form' = NewForm(v)
    /\ IF v = "EventCalendar" THEN calMonth' \in CalMonths ELSE calMonth' = 0

\* InitialRoleChoiceView buttons (128, 135) -> handleRoleSelect (885-888);
\* the default case of the switch renders the same view
SelectRoleAs(r) ==
    /\ Shown(view) /\ view = "InitialRoleChoice"
    /\ targetRole' = r
    /\ SetView("Login")
    /\ last' = "SelectRole"
    /\ UNCHANGED <<sessionVars, dataVars, writeVars, userRole, selectedEvent>>

SelectRole == \E r \in Roles : SelectRoleAs(r)

Trim(t) == [t EXCEPT !.blanks = FALSE]
ToLowerCase(t) == [t EXCEPT !.upper = FALSE]

\* MOCK_CREDENTIALS (19-22)
MOCK_CREDENTIALS(role) ==
    IF role = "Teacher" THEN [username |-> Plain("teacher"), password |-> Plain("pass")]
    ELSE [username |-> Plain("student"), password |-> Plain("pass")]

\* the same test with the password lower-cased as the username is
CredentialsMatchAnyCase(role, username, password) ==
    /\ ToLowerCase(Trim(username)) = MOCK_CREDENTIALS(role).username
    /\ ToLowerCase(Trim(password)) = MOCK_CREDENTIALS(role).password

\* LoginView.handleSubmit's test (163-170)
CredentialsMatch(role, username, password) ==
    /\ ToLowerCase(Trim(username)) = MOCK_CREDENTIALS(role).username
    /\ Trim(password) = MOCK_CREDENTIALS(role).password

\* LoginView.handleSubmit (158-177) with handleLogin (891-895)
LoginSubmit ==
    /\ OnScreen("Login")
    /\ IF CredentialsMatch(targetRole, form.username, form.password)
       THEN /\ userRole' = targetRole
            /\ targetRole' = "null"
            /\ SetView(DashboardOf(targetRole))
            /\ last' = "LoginAccepted"
       ELSE /\ form' = [form EXCEPT !.error = "Invalid credentials. Please try again."]
            /\ last' = "LoginRefused"
            /\ UNCHANGED <<userRole, targetRole, view, calMonth>>
    /\ UNCHANGED <<sessionVars, dataVars, writeVars, selectedEvent>>

\* the username and password inputs of LoginView (192, 204)
LoginChange ==
    /\ OnScreen("Login")
    /\ \E x \in Typed :
         \/ form' = [form EXCEPT !.username = x]
         \/ form' = [form EXCEPT !.password = x]
    /\ form' # form
    /\ last' = "LoginChange"
    /\ UNCHANGED <<sessionVars, dataVars, writeVars, userRole, targetRole, view,
                   selectedEvent, calMonth>>

\* LoginView "Back to Role Selection" (223)
LoginBack ==
    /\ OnScreen("Login")
    /\ SetView("InitialRoleChoice")
    /\ last' = "LoginBack"
    /\ UNCHANGED <<sessionVars, dataVars, writeVars, userRole, targetRole, selectedEvent>>

\* DashboardLink (717-722) of TeacherDashboard and StudentDashboard
DashboardLinkTo(v) ==
    /\ \/ OnScreen("TeacherDashboard") /\ v \in TeacherLinks
       \/ OnScreen("StudentDashboard") /\ v \in StudentLinks
    /\ SetView(v)
    /\ last' = "DashboardLink"
    /\ UNCHANGED <<sessionVars, dataVars, writeVars, userRole, targetRole, selectedEvent>>

DashboardLink == \E v \in Views : DashboardLinkTo(v)

\* the "Log Out" button of TeacherDashboard (733) and StudentDashboard (748)
DashboardLogOut ==
    /\ OnScreen("TeacherDashboard") \/ OnScreen("StudentDashboard")
    /\ SetView("InitialRoleChoice")
    /\ last' = "DashboardLogOut"
    /\ UNCHANGED <<sessionVars, dataVars, writeVars, userRole, targetRole, selectedEvent>>

\* the header button (985); the header is rendered whenever userRole is set (976)
HeaderLogOut ==
    /\ mounted /\ userRole # "null"
    /\ userRole' = "null"
    /\ SetView("InitialRoleChoice")
    /\ last' = "HeaderLogOut"
    /\ UNCHANGED <<sessionVars, dataVars, writeVars, targetRole, selectedEvent>>

\* EventCalendarView.changeMonth (282-287), the '<' and '>' buttons
ChangeMonth ==
    /\ OnScreen("EventCalendar")
    /\ \E delta \in {-1, 1} :
         /\ calMonth + delta \in CalMonths
         /\ calMonth' = calMonth + delta
    /\ last' = "ChangeMonth"
    /\ UNCHANGED <<sessionVars, dataVars, writeVars, userRole, targetRole, view,
                   selectedEvent, form>>

\* what EventDetailsView's render leaves in the array it is given (320-321):
\* sort() sorts that array in place
DetailsRendered(list) == SortByDate(list)

\* EventCalendarView.goToDetails (275-280), in a time zone behind UTC or not, then the render of EventDetails (931):
\* the filtered array is truthy even when empty, so it is the array sorted
GoToDetails ==
    /\ OnScreen("EventCalendar")
    /\ \E west \in BOOLEAN :
         selectedEvent' = <<DetailsRendered(EventsOfMonth(events, calMonth, west))>>
    /\ SetView("EventDetails")
    /\ last' = "GoToDetails"
    /\ UNCHANGED <<sessionVars, dataVars, writeVars, userRole, targetRole>>

\* EventCalendarView "Add New Event", rendered for a Teacher only (309-313)
CalendarAddEventOffered(role) == role = "Teacher"

CalendarAddEvent ==
    /\ OnScreen("EventCalendar")
    /\ CalendarAddEventOffered(userRole)
    /\ SetView("AddEvent")
    /\ last' = "CalendarAddEvent"
    /\ UNCHANGED <<sessionVars, dataVars, writeVars, userRole, targetRole, selectedEvent>>

\* EventDetailsView "Back to Dashboard" (361)
DetailsBack ==
    /\ OnScreen("EventDetails")
    /\ SetView(DashboardOf(userRole))
    /\ selectedEvent' = <<>>
    /\ last' = "DetailsBack"
    /\ UNCHANGED <<sessionVars, dataVars, writeVars, userRole, targetRole>>

\* "Cancel" of AddEventView (441), "Back to Dashboard" of AddScoresView (563)
TeacherFormBack ==
    /\ OnScreen("AddEvent") \/ OnScreen("AddScores")
    /\ SetView("TeacherDashboard")
    /\ last' = "TeacherFormBack"
    /\ UNCHANGED <<sessionVars, dataVars, writeVars, userRole, targetRole, selectedEvent>>

\* "Back to Dashboard" of ViewResultsView (621) and StudentProfileView (781)
StudentViewBack ==
    /\ OnScreen("ViewResults") \/ OnScreen("StudentProfile")
    /\ SetView("StudentDashboard")
    /\ last' = "StudentViewBack"
    /\ UNCHANGED <<sessionVars, dataVars, writeVars, userRole, targetRole, selectedEvent>>

\* the rank texts in the order localeCompare(..., { numeric: true }) gives them;
\* a rank that is missing counts as '' (599)
RankCollation == <<"", "1", "2">>
RankKey(rank) == CHOOSE k \in 1..Len(RankCollation) : RankCollation[k] = rank

\* one result inserted after the results of a sorted list that do not rank later
RECURSIVE InsertByRank(_, _)
InsertByRank(r, sorted) ==
    IF sorted = <<>> THEN <<r>>
    ELSE IF RankKey(Head(sorted).rank) <= RankKey(r.rank)
         THEN <<Head(sorted)>> \o InsertByRank(r, Tail(sorted))
         ELSE <<r>> \o sorted

\* score.results.sort((a, b) => (a.rank || '').localeCompare(b.rank || '', ...))
\* (599): stable
RECURSIVE SortByRank(_)
SortByRank(seq) ==
    IF seq = <<>> THEN <<>>
    ELSE InsertByRank(seq[Len(seq)], SortByRank(SubSeq(seq, 1, Len(seq) - 1)))

\* what ResultModal's render leaves in the score object it is given (599):
\* sort() sorts the results array of that object in place
ModalRendered(score) == [score EXCEPT !.results = SortByRank(@)]

\* "View All Results" of a result card (586) and the render of ResultModal
\* that follows (625): the score given to the modal is the element of the
\* scores state the card was made from, sortedScores (578) being a copy of the
\* array and not of its elements; the modal covers the cards while it is open
ViewAllResults ==
    /\ OnScreen("ViewResults") /\ form.selectedScore = <<>>
    /\ \E k \in 1..Len(scores) :
         /\ scores' = [scores EXCEPT ![k] = ModalRendered(@)]
         /\ form' = [form EXCEPT !.selectedScore = <<scores'[k]>>]
    /\ last' = "ViewAllResults"
    /\ UNCHANGED <<sessionVars, writeVars, userRole, targetRole, view, selectedEvent,
                   calMonth, events, notices, error, listeners, fetchedEvents,
                   prevSeeds>>

\* "Close" of ResultModal (608, 625)
CloseResults ==
    /\ OnScreen("ViewResults") /\ form.selectedScore # <<>>
    /\ form' = [form EXCEPT !.selectedScore = <<>>]
    /\ last' = "CloseResults"
    /\ UNCHANGED <<sessionVars, dataVars, writeVars, userRole, targetRole, view,
                   selectedEvent, calMonth>>

\* "Back to Dashboard" of NoticeBoardView (710)
NoticeBack ==
    /\ OnScreen("NoticeBoard")
    /\ SetView(DashboardOf(userRole))
    /\ last' = "NoticeBack"
    /\ UNCHANGED <<sessionVars, dataVars, writeVars, userRole, targetRole, selectedEvent>>

----------------------------------------------------------------------------
(* setView as App hands it to every view (922-944): any view may be asked for *)

\* setView(target) and the render after it: the view state takes the target
\* as it is; the component of the target is mounted only when renderView
\* returns it
SetViewTo(target) ==
    /\ view' = target
    /\ IF RenderView(error, isAuthReady, target, userRole, db) = target
       THEN /\ form' = NewForm(target)
            /\ IF target = "EventCalendar" THEN calMonth' \in CalMonths ELSE calMonth' = 0
       ELSE /\ form' = [kind |-> "none"]
            /\ calMonth' = 0
    /\ last' = "setView"
    /\ UNCHANGED <<sessionVars, dataVars, writeVars, userRole, targetRole, selectedEvent>>

AnySetView == \E target \in Views : SetViewTo(target)

----------------------------------------------------------------------------
(* The document store: each collection is a set of documents [id, data] *)

\* the ids the store gives to documents added with addDoc
AutoIds == <<"a1", "a2", "a3", "a4", "a5", "a6">>
AutoId(coll) ==
    AutoIds[CHOOSE k \in 1..Len(AutoIds) :
              /\ \A d \in coll : d.id # AutoIds[k]
              /\ \A j \in 1..(k - 1) : \E d \in coll : d.id = AutoIds[j]]

\* addDoc(ref, data): always a new document
AddDoc(coll, data) == coll \cup {[id |-> AutoId(coll), data |-> data]}

\* setDoc(doc(ref, id), data): the document of that id, created or replaced
SetDoc(coll, id, data) == {d \in coll : d.id # id} \cup {[id |-> id, data |-> data]}

\* the write of a task, applied: 396, 655 (addDoc) and 493, 502 (setDoc)
ApplyWrite(st, t) ==
    CASE t.kind = "event"  -> [st EXCEPT !.events = AddDoc(@, t.payload.data)]
      [] t.kind = "notice" -> [st EXCEPT !.notices = AddDoc(@, t.payload.data)]
      [] t.kind = "scores" -> [st EXCEPT !.scores = SetDoc(@, t.payload.ref, t.payload.data)]
      [] OTHER -> st

\* the sequences that list every document of a collection once
Listings(coll) ==
    {f \in [1..Cardinality(coll) -> coll] :
        \A a, b \in 1..Cardinality(coll) : a # b => f[a] # f[b]}

\* query(events, orderBy('date', 'desc')) (846): documents of equal date in any order
EventsQuery(coll) ==
    {f \in Listings(coll) :
        \A a, b \in 1..Cardinality(coll) :
            a < b => DateKey(f[a].data.date) >= DateKey(f[b].data.date)}

\* query(notices, orderBy('createdAt', 'desc')) (858)
NoticesQuery(coll) ==
    {f \in Listings(coll) :
        \A a, b \in 1..Cardinality(coll) :
            a < b => f[a].data.createdAt >= f[b].data.createdAt}

\* query(scores) (868): no order asked for
ScoresQuery(coll) == Listings(coll)

\* snapshot.docs.map(doc => ({ id: doc.id, ...doc.data() })) (848, 860, 870):
\* the fields of the data, and the document id where the data has no id field
Materialize(docs) == [k \in 1..Len(docs) |-> docs[k].data @@ [id |-> docs[k].id]]

\* the same test on the first fetched event only
SomeTitledFirst(fetched, title) == fetched # <<>> /\ fetched[1].title = title
\* fetchedEvents.some(f => f.title === m.title)
SomeTitled(fetched, title) == \E k \in 1..Len(fetched) : fetched[k].title = title

\* MOCK_EVENTS.filter(m => !fetchedEvents.some(f => f.title === m.title))
RECURSIVE SeedsKept(_, _)
SeedsKept(seeds, fetched) ==
    IF seeds = <<>> THEN <<>>
    ELSE IF SomeTitled(fetched, Head(seeds).title)
         THEN SeedsKept(Tail(seeds), fetched)
         ELSE <<Head(seeds)>> \o SeedsKept(Tail(seeds), fetched)

\* the ids of the seed events that a list holds
SeedsShown(evs) ==
    {evs[k].id : k \in {j \in 1..Len(evs) : \E m \in 1..Len(MOCK_EVENTS) : evs[j] = MOCK_EVENTS[m]}}

\* a merge that puts the live events before the seed events
MergedEventsLiveFirst(fetched) == fetched \o SeedsKept(MOCK_EVENTS, fetched)
\* a merge that filters the list in memory in place of the seed list
MergedEventsPatched(fetched) == SeedsKept(events, fetched) \o fetched
\* mergedEvents (850)
MergedEvents(fetched) == SeedsKept(MOCK_EVENTS, fetched) \o fetched

----------------------------------------------------------------------------
(* The snapshot listeners opened by effect 2 (847-875) *)

\* the events listener is handed a snapshot (847-851)
EventsSnapshot ==
    /\ mounted /\ ListenerOpen("events")
    /\ \E docs \in EventsQuery(store.events) :
         /\ fetchedEvents' = Materialize(docs)
         /\ events' = MergedEvents(Materialize(docs))
    /\ prevSeeds' = SeedsShown(events)
    /\ last' = "EventsSnapshot"
    /\ UNCHANGED <<sessionVars, navVars, writeVars, notices, scores, error, listeners>>

\* the notices listener is handed a snapshot (859-861)
NoticesSnapshot ==
    /\ mounted /\ ListenerOpen("notices")
    /\ \E docs \in NoticesQuery(store.notices) : notices' = Materialize(docs)
    /\ last' = "NoticesSnapshot"
    /\ UNCHANGED <<sessionVars, navVars, writeVars, events, scores, error, listeners,
                   fetchedEvents, prevSeeds>>

\* the scores listener is handed a snapshot (869-871)
ScoresSnapshot ==
    /\ mounted /\ ListenerOpen("scores")
    /\ \E docs \in ScoresQuery(store.scores) : scores' = Materialize(docs)
    /\ last' = "ScoresSnapshot"
    /\ UNCHANGED <<sessionVars, navVars, writeVars, events, notices, error, listeners,
                   fetchedEvents, prevSeeds>>

\* the error callback of a listener (852-855, 862-865, 872-875); the store ends
\* a listener it reports an error for; renderView now returns the error screen
\* (899-905), which unmounts the component of the view and drops its state
ListenerError ==
    /\ mounted
    /\ \E l \in listeners :
         /\ IsOpen(l)
         /\ error' = "Could not load " \o l.coll \o "."
         /\ listeners' = (listeners \ {l}) \cup {[l EXCEPT !.failed = TRUE]}
    /\ form' = [kind |-> "none"] /\ calMonth' = 0
    /\ last' = "ListenerError"
    /\ UNCHANGED <<sessionVars, writeVars, events, notices, scores, fetchedEvents,
                   prevSeeds, userRole, targetRole, view, selectedEvent>>

----------------------------------------------------------------------------
(* Other clients of the shared store *)

\* what is typed in the title, date and description fields of an event
Titles == {"Sports Day", "Quiz"}
Dates == {<<2025, 11, 20>>}
Descriptions == {"about"}

\* the dates of the events other clients add
OtherDates == {<<2025, 11, 1>>, <<2025, 11, 20>>}

\* EventCategories[0] (43), the category a form is left with
DefaultCategory == "Sports"

\* another teacher's client adds an event
OtherClientAddsEvent ==
    /\ db /\ Cardinality(store.events) < MaxLive
    /\ \E title \in Titles, date \in OtherDates :
         store' = [store EXCEPT !.events =
                     AddDoc(@, [title |-> title, date |-> date, description |-> "about",
                                category |-> DefaultCategory, createdAt |-> 0,
                                createdBy |-> "Teacher"])]
    /\ last' = "OtherClientAddsEvent"
    /\ UNCHANGED <<sessionVars, navVars, dataVars, tasks, published, clock, cap>>

\* an event document is deleted in the store (the application itself never deletes)
EventDeleted ==
    /\ \E d \in store.events : store' = [store EXCEPT !.events = @ \ {d}]
    /\ last' = "EventDeleted"
    /\ UNCHANGED <<sessionVars, navVars, dataVars, tasks, published, clock, cap>>

----------------------------------------------------------------------------
(* The forms: AddEventView, AddScoresView, NoticeBoardView *)

\* a submission reads new Date(); the run explores cap of them
CanStamp == clock < cap

\* the argument of addDoc / setDoc: the document reference (auto = a new
\* document), the data, and the time that identifies the submission
Payload(ref, data, stamp) == [ref |-> ref, data |-> data, stamp |-> stamp]

\* AddEventView.handleChange (373-376)
AddEventChange ==
    /\ OnScreen("AddEvent")
    /\ \/ \E x \in Titles \cup {""} : form' = [form EXCEPT !.title = x]
       \/ \E x \in Dates \cup {<<>>} : form' = [form EXCEPT !.date = x]
       \/ \E x \in Descriptions \cup {""} : form' = [form EXCEPT !.description = x]
    /\ form' # form
    /\ last' = "AddEventChange"
    /\ UNCHANGED <<sessionVars, dataVars, writeVars, userRole, targetRole, view,
                   selectedEvent, calMonth>>

\* the same test on the title only
AddEventIncompleteTitleOnly(f) == f.title = ""
\* !formData.title || !formData.date || !formData.description (383)
AddEventIncomplete(f) == f.title = "" \/ f.date = <<>> \/ f.description = ""

\* newEvent (389-393)
NewEvent(f, now, role) ==
    [title |-> f.title, date |-> f.date, description |-> f.description,
     category |-> DefaultCategory, createdAt |-> now, createdBy |-> role]

\* AddEventView.handleSubmit up to its await (378-396); the button is disabled
\* while loading (437)
AddEventSubmit ==
    /\ OnScreen("AddEvent") /\ ~form.loading
    /\ IF AddEventIncomplete(form)
       THEN /\ form' = [form EXCEPT !.message = "Please fill in all fields.",
                                    !.loading = FALSE]
            /\ UNCHANGED <<tasks, clock>>
       ELSE /\ CanStamp
            /\ clock' = clock + 1
            /\ tasks' = Append(tasks,
                           NewTask("event",
                                   Payload("auto", NewEvent(form, clock', userRole), clock'),
                                   DefaultMaxRetries))
            /\ form' = [form EXCEPT !.message = "", !.loading = TRUE, !.stamp = clock']
    /\ last' = "AddEventSubmit"
    /\ UNCHANGED <<sessionVars, dataVars, store, published, cap, userRole, targetRole,
                   view, selectedEvent, calMonth>>

\* what is typed in the notice field
NoticeTexts == {"Assembly at nine"}

\* the form rendered for every role
NoticeFormOfferedToAll(role) == TRUE

\* the textarea of NoticeBoardView, rendered for a Teacher only (669-679)
NoticeFormOffered(role) == role = "Teacher"

NoticeChange ==
    /\ OnScreen("NoticeBoard") /\ NoticeFormOffered(userRole)
    /\ \E x \in NoticeTexts \cup {""} : form' = [form EXCEPT !.noticeText = x]
    /\ form' # form
    /\ last' = "NoticeChange"
    /\ UNCHANGED <<sessionVars, dataVars, writeVars, userRole, targetRole, view,
                   selectedEvent, calMonth>>

\* !noticeText (642)
NoticeIncomplete(f) == f.noticeText = ""

\* newNotice (648-652)
NewNotice(f, now, uid) == [content |-> f.noticeText, createdAt |-> now, createdBy |-> uid]

\* NoticeBoardView.handleSendNotice up to its await (637-655)
NoticeSubmit ==
    /\ OnScreen("NoticeBoard") /\ NoticeFormOffered(userRole) /\ ~form.loading
    /\ IF NoticeIncomplete(form)
       THEN /\ form' = [form EXCEPT !.message = "Notice cannot be empty.",
                                    !.loading = FALSE]
            /\ UNCHANGED <<tasks, clock>>
       ELSE /\ CanStamp
            /\ clock' = clock + 1
            /\ tasks' = Append(tasks,
                           NewTask("notice",
                                   Payload("auto", NewNotice(form, clock', userId), clock'),
                                   DefaultMaxRetries))
            /\ form' = [form EXCEPT !.message = "", !.loading = TRUE, !.stamp = clock']
    /\ last' = "NoticeSubmit"
    /\ UNCHANGED <<sessionVars, dataVars, store, published, cap, userRole, targetRole,
                   view, selectedEvent, calMonth>>

\* the options of the event select of AddScoresView (519-522)
EventOptions(evs) == {""} \cup {evs[k].id : k \in 1..Len(evs)}

\* the options the user of the model picks (the first of the select, and two events)
EventsPicked == {"", "1", "2"}

\* the select's onChange (518) and the effect on selectedEventId (462-474)
ScoresSelectEvent ==
    /\ OnScreen("AddScores")
    /\ \E id \in EventOptions(events) \cap EventsPicked :
         /\ id # form.selectedEventId
         /\ form' = IF id # ""
                    THEN [form EXCEPT !.selectedEventId = id, !.scoreData = InitialScores,
                                      !.message = ""]
                    ELSE [form EXCEPT !.selectedEventId = id]
    /\ last' = "ScoresSelectEvent"
    /\ UNCHANGED <<sessionVars, dataVars, writeVars, userRole, targetRole, view,
                   selectedEvent, calMonth>>

\* what is typed in a score field and in a rank field (no rank, in these runs),
\* and for which students
ScoreTexts == {"9.5s"}
RankTexts == {}
StudentsScored == {"student-A"}

\* AddScoresView.handleScoreChange (476-478); the inputs are rendered once an
\* event is selected (526)
ScoresChange ==
    /\ OnScreen("AddScores") /\ form.selectedEventId # ""
    /\ \E k \in 1..Len(form.scoreData) :
         /\ form.scoreData[k].studentId \in StudentsScored
         /\ \/ \E x \in ScoreTexts \cup {""} : form' = [form EXCEPT !.scoreData[k].score = x]
            \/ \E x \in RankTexts \cup {""} : form' = [form EXCEPT !.scoreData[k].rank = x]
    /\ form' # form
    /\ last' = "ScoresChange"
    /\ UNCHANGED <<sessionVars, dataVars, writeVars, userRole, targetRole, view,
                   selectedEvent, calMonth>>

\* events.find(e => e.id === selectedEventId)?.title || 'Unknown Event' (486)
EventTitleOf(evs, id) ==
    IF \E k \in 1..Len(evs) : evs[k].id = id
    THEN evs[CHOOSE k \in 1..Len(evs) :
               evs[k].id = id /\ \A j \in 1..(k - 1) : evs[j].id # id].title
    ELSE "Unknown Event"

\* scoreData.filter(s => s.score || s.rank) (489)
RECURSIVE ValidScores(_)
ValidScores(data) ==
    IF data = <<>> THEN <<>>
    ELSE IF Head(data).score # "" \/ Head(data).rank # ""
         THEN <<Head(data)>> \o ValidScores(Tail(data))
         ELSE ValidScores(Tail(data))

\* the id of the document reference, doc(scores, selectedEventId) (493)

\* a document id the store picks, as addDoc would
ScoreDocIdFresh(f) == AutoId(store.scores)
\* doc(getPublicCollectionRef(db, 'scores'), selectedEventId) (493)
ScoreDocId(f) == f.selectedEventId

\* !selectedEventId (481)
ScoresIncomplete(f) == f.selectedEventId = ""

\* {selectedEventId && ( ... <Button onClick={handleSubmit} (526, 558)
ScoresButtonOffered(f) == f.selectedEventId # ""

\* scorePayload (494-500)
ScorePayload(f, evs, now, uid) ==
    [eventId |-> f.selectedEventId, eventTitle |-> EventTitleOf(evs, f.selectedEventId),
     results |-> ValidScores(f.scoreData), publishedAt |-> now, teacherId |-> uid]

\* AddScoresView.handleSubmit up to its await (480-502); the button is rendered
\* once an event is selected (526, 558) and disabled while loading
ScoresSubmit ==
    /\ OnScreen("AddScores") /\ ScoresButtonOffered(form) /\ ~form.loading
    /\ IF ScoresIncomplete(form)
       THEN UNCHANGED <<form, tasks, clock>>
       ELSE /\ CanStamp
            /\ clock' = clock + 1
            /\ tasks' = Append(tasks,
                           NewTask("scores",
                                   Payload(ScoreDocId(form),
                                           ScorePayload(form, events, clock', userId),
                                           clock'),
                                   DefaultMaxRetries))
            /\ form' = [form EXCEPT !.message = "", !.loading = TRUE, !.stamp = clock']
    /\ last' = "ScoresSubmit"
    /\ UNCHANGED <<sessionVars, dataVars, store, published, cap, userRole, targetRole,
                   view, selectedEvent, calMonth>>

----------------------------------------------------------------------------
(* The writes in progress: withRetry around addDoc / setDoc, and the rest of
   the handler that awaits it *)

\* the component that made the submission is still mounted
Awaited(f, t, v) == f.kind = v /\ f.stamp = t.payload.stamp

\* after the await: 397-398 and 403, 503-505 and 510, 656-657 and 662
AfterSuccess(f, t) ==
    CASE t.kind = "event" /\ Awaited(f, t, "AddEvent") ->
           [f EXCEPT !.message = "Event successfully added!", !.title = "",
                     !.date = <<>>, !.description = "", !.loading = FALSE]
      [] t.kind = "scores" /\ Awaited(f, t, "AddScores") ->
           [f EXCEPT !.message = "Scores successfully published/updated!",
                     !.selectedEventId = "", !.scoreData = <<>>, !.loading = FALSE]
      [] t.kind = "notice" /\ Awaited(f, t, "NoticeBoard") ->
           [f EXCEPT !.message = "Notice sent successfully!", !.noticeText = "",
                     !.loading = FALSE]
      [] OTHER -> f

\* a failure handled as a success is, but for the text of the message
AfterFailureCleared(f, t) ==
    IF AfterSuccess(f, t) = f THEN f
    ELSE [AfterSuccess(f, t) EXCEPT !.message = "Failed. Please try again."]

\* the catch and finally blocks: 399-404, 506-511, 658-663
AfterFailure(f, t) ==
    CASE t.kind = "event" /\ Awaited(f, t, "AddEvent") ->
           [f EXCEPT !.message = "Failed to add event. Please try again.",
                     !.loading = FALSE]
      [] t.kind = "scores" /\ Awaited(f, t, "AddScores") ->
           [f EXCEPT !.message = "Failed to publish scores. Please try again.",
                     !.loading = FALSE]
      [] t.kind = "notice" /\ Awaited(f, t, "NoticeBoard") ->
           [f EXCEPT !.message = "Failed to send notice. Please try again.",
                     !.loading = FALSE]
      [] OTHER -> f

Without(seq, k) == SubSeq(seq, 1, k - 1) \o SubSeq(seq, k + 1, Len(seq))

\* task k moved to t2: a settled withRetry resumes its handler and is done with
TasksAfter(k, t2) ==
    IF t2.pc \in {"returned", "threw"} THEN Without(tasks, k) ELSE [tasks EXCEPT ![k] = t2]

FormAfter(t2) ==
    CASE t2.pc = "returned" -> AfterSuccess(form, t2)
      [] t2.pc = "threw" -> AfterFailure(form, t2)
      [] OTHER -> form

\* the score publication of a task, noted as the one that succeeded last for
\* its event, with the number of publications that succeeded for that event
Noted(pub, t) ==
    IF t.kind = "scores"
    THEN LET id == t.payload.data.eventId
             before == {p \in pub : p.eventId = id}
             n == IF before = {} THEN 0 ELSE (CHOOSE p \in before : TRUE).count
         IN (pub \ before) \cup {[eventId |-> id, data |-> t.payload.data, count |-> n + 1]}
    ELSE pub

\* the store accepts the write of a task: its promise is fulfilled
WriteResolved ==
    /\ \E k \in 1..Len(tasks) :
         /\ tasks[k].kind # "op" /\ tasks[k].pc = "call"
         /\ store' = ApplyWrite(store, tasks[k])
         /\ published' = Noted(published, tasks[k])
         /\ tasks' = TasksAfter(k, TaskResolved(tasks[k], "written"))
         /\ form' = FormAfter(TaskResolved(tasks[k], "written"))
    /\ last' = "WriteResolved"
    /\ UNCHANGED <<sessionVars, dataVars, clock, cap, userRole, targetRole, view,
                   selectedEvent, calMonth>>

\* the store refuses the write of a task: its promise is rejected, nothing is written
WriteRejected ==
    /\ \E k \in 1..Len(tasks) :
         /\ tasks[k].kind # "op" /\ tasks[k].pc = "call"
         /\ tasks' = TasksAfter(k, TaskRejected(tasks[k], "unavailable"))
         /\ form' = FormAfter(TaskRejected(tasks[k], "unavailable"))
    /\ last' = "WriteRejected"
    /\ UNCHANGED <<sessionVars, dataVars, store, published, clock, cap, userRole,
                   targetRole, view, selectedEvent, calMonth>>

\* the backoff timer of a task fires
WriteWake ==
    /\ \E k \in 1..Len(tasks) :
         /\ tasks[k].kind # "op" /\ tasks[k].pc = "sleep"
         /\ tasks' = TasksAfter(k, TaskWoke(tasks[k]))
         /\ form' = FormAfter(TaskWoke(tasks[k]))
    /\ last' = "WriteWake"
    /\ UNCHANGED <<sessionVars, dataVars, store, published, clock, cap, userRole,
                   targetRole, view, selectedEvent, calMonth>>

----------------------------------------------------------------------------
(* The application *)

\* the number of write submissions a run explores: of score publications, and
\* of submissions of any of the three forms
MaxWrites == 2
MaxSubmits == 1

\* the useState initial values of App (793-808); the provider may know a user
\* from an earlier visit
InitApp ==
    /\ pcInit = "start" /\ mounted = TRUE /\ db = FALSE /\ isAuthReady = FALSE
    /\ authUser \in {"null", "u1"}
    /\ authQ = <<>> /\ cbAwait = <<>>
    /\ userRole = "null" /\ targetRole = "null" /\ userId = "null"
    /\ view = "InitialRoleChoice" /\ selectedEvent = <<>>
    /\ events = MOCK_EVENTS /\ notices = <<>> /\ scores = <<>>
    /\ error = "null" /\ listeners = {}
    /\ fetchedEvents = <<>> /\ prevSeeds = SeedsShown(MOCK_EVENTS)
    /\ store = [events |-> {}, notices |-> {}, scores |-> {}]
    /\ published = {}
    /\ calMonth = 0
    /\ form = NewForm("InitialRoleChoice")
    /\ clock = 0
    /\ last = "App"

Session ==
    \/ InitOk \/ InitFail
    \/ AuthCallbackUser \/ AuthCallbackNull \/ SignInResolved \/ SignInRejected

Login == SelectRole \/ LoginChange \/ LoginSubmit \/ LoginBack

Navigation ==
    \/ DashboardLink \/ DashboardLogOut \/ HeaderLogOut
    \/ ChangeMonth \/ GoToDetails \/ CalendarAddEvent \/ DetailsBack
    \/ TeacherFormBack \/ StudentViewBack \/ NoticeBack

Listening == EventsSnapshot \/ NoticesSnapshot \/ ScoresSnapshot \/ ListenerError

Writing == WriteResolved \/ WriteRejected \/ WriteWake

StoreChanges == OtherClientAddsEvent \/ EventDeleted

EventForm == AddEventChange \/ AddEventSubmit
NoticeForm == NoticeChange \/ NoticeSubmit
ScoresForm == ScoresSelectEvent \/ ScoresChange \/ ScoresSubmit

\* the application with a user who looks around: signs in, navigates, logs
\* out, while snapshots arrive; nothing is written
Init == InitApp /\ tasks = <<>> /\ cap = 0

Next == Session \/ Login \/ Navigation \/ Listening

Spec == Init /\ [][Next]_vars

\* a user the provider knows from an earlier visit
InitReturning == InitApp /\ authUser = "u1" /\ tasks = <<>>
Returning == InitOk \/ AuthCallbackUser

\* a returning Teacher who publishes scores, leaves the form and comes back to it
InitScores == InitReturning /\ cap = MaxWrites

NextScores ==
    \/ Returning \/ SelectRoleAs("Teacher") \/ LoginChange \/ LoginSubmit
    \/ DashboardLinkTo("AddScores") \/ TeacherFormBack
    \/ ScoresForm \/ Writing

SpecScores == InitScores /\ [][NextScores]_vars

\* a returning Teacher who fills in and submits the three forms
InitForms == InitReturning /\ cap = MaxSubmits

NextForms ==
    \/ Returning \/ SelectRoleAs("Teacher") \/ LoginChange \/ LoginSubmit
    \/ DashboardLink \/ TeacherFormBack \/ NoticeBack
    \/ EventForm \/ NoticeForm \/ ScoresForm \/ Writing

SpecForms == InitForms /\ [][NextForms]_vars

\* the events listener while the events collection of the store changes
InitSync == InitReturning /\ cap = 0

NextSync == Returning \/ StoreChanges \/ EventsSnapshot

SpecSync == InitSync /\ [][NextSync]_vars

\* a returning Student who reads the results of a publication made on an
\* earlier visit, in which the Teacher ranked the second student first
RankedScores ==
    [InitialScores EXCEPT ![1].score = "9.5s", ![1].rank = "2",
                          ![2].score = "9.1s", ![2].rank = "1"]

EarlierPublication ==
    LET f == [NewForm("AddScores") EXCEPT !.selectedEventId = MOCK_EVENTS[1].id,
                                          !.scoreData = RankedScores]
    IN  [id |-> ScoreDocId(f), data |-> ScorePayload(f, MOCK_EVENTS, 0, "u1")]

InitResults ==
    /\ pcInit = "start" /\ mounted = TRUE /\ db = FALSE /\ isAuthReady = FALSE
    /\ authUser = "u1" /\ authQ = <<>> /\ cbAwait = <<>>
    /\ userRole = "null" /\ targetRole = "null" /\ userId = "null"
    /\ view = "InitialRoleChoice" /\ selectedEvent = <<>>
    /\ events = MOCK_EVENTS /\ notices = <<>> /\ scores = <<>>
    /\ error = "null" /\ listeners = {}
    /\ fetchedEvents = <<>> /\ prevSeeds = SeedsShown(MOCK_EVENTS)
    /\ store = [events |-> {}, notices |-> {}, scores |-> {EarlierPublication}]
    /\ published = {}
    /\ calMonth = 0
    /\ form = NewForm("InitialRoleChoice")
    /\ clock = 0 /\ tasks = <<>> /\ cap = 0
    /\ last = "App"

NextResults ==
    \/ Returning \/ SelectRoleAs("Student") \/ LoginChange \/ LoginSubmit
    \/ DashboardLinkTo("ViewResults") \/ StudentViewBack
    \/ ScoresSnapshot \/ ViewAllResults \/ CloseResults

SpecResults == InitResults /\ [][NextResults]_vars

\* a returning Teacher who sends notices and, while they are being written,
\* leaves the form, logs out, loses a listener or closes the application; the
\* store answers every call and every timer fires
NextWrites ==
    \/ Returning \/ SelectRoleAs("Teacher") \/ LoginChange \/ LoginSubmit
    \/ DashboardLinkTo("NoticeBoard") \/ NoticeBack \/ NoticeForm
    \/ HeaderLogOut \/ ListenerError \/ Unmount
    \/ Writing

SpecWrites ==
    /\ InitForms /\ [][NextWrites]_vars
    /\ WF_vars(WriteResolved \/ WriteRejected) /\ WF_vars(WriteWake)

\* a returning user who logs in as either role, goes to every view that holds
\* a form or leads to one and uses every form offered; the store accepts what
\* is written
NextRoles ==
    \/ Returning \/ Login
    \/ DashboardLink \/ DashboardLogOut \/ HeaderLogOut \/ CalendarAddEvent
    \/ TeacherFormBack \/ StudentViewBack \/ NoticeBack
    \/ EventForm \/ NoticeForm \/ ScoresForm \/ WriteResolved

SpecRoles == InitForms /\ [][NextRoles]_vars

\* the session, the listeners of effect 2 and the disposal of App
NextListeners == Session \/ ProviderSignsOut \/ Listening \/ Unmount

SpecListeners == Init /\ [][NextListeners]_vars

\* renderView and setView on their own: any role, view, store handle, session
\* readiness and error they may be given
InitGate ==
    /\ pcInit = "done" /\ mounted = TRUE /\ db \in BOOLEAN /\ isAuthReady \in BOOLEAN
    /\ authUser = "u1" /\ authQ = <<>> /\ cbAwait = <<>> /\ userId = "u1"
    /\ userRole \in Roles \cup {"null"} /\ targetRole = "null"
    /\ view \in Views /\ selectedEvent = <<>>
    /\ events = MOCK_EVENTS /\ notices = <<>> /\ scores = <<>>
    /\ error \in {"null", "Could not load events."} /\ listeners = {}
    /\ fetchedEvents = <<>> /\ prevSeeds = SeedsShown(MOCK_EVENTS)
    /\ store = [events |-> {}, notices |-> {}, scores |-> {}]
    /\ published = {} /\ tasks = <<>> /\ clock = 0 /\ cap = 0
    /\ IF Screen = view
       THEN /\ form = NewForm(view)
            /\ IF view = "EventCalendar" THEN calMonth \in CalMonths ELSE calMonth = 0
       ELSE /\ form = [kind |-> "none"]
            /\ calMonth = 0
    /\ last = "App"

SpecGate == InitGate /\ [][AnySetView]_vars

\* withRetry called once, on its own, with any maxRetries up to the bound
InitRetry ==
    /\ InitApp /\ authUser = "null" /\ cap = 0
    /\ \E max \in 0..MaxRetriesArg : tasks = <<NewTask("op", "none", max)>>

SpecRetry == InitRetry /\ [][NextRetry]_vars

----------------------------------------------------------------------------
(* Properties *)

\* C1: logging out, from a dashboard's Log Out button or from the header
\* button, leaves the view on InitialRoleChoice and the role null.
\* The Log Out button of the dashboards leaves the role as it was.
C1_LogOutResetsViewAndRole ==
    last \in {"DashboardLogOut", "HeaderLogOut"}
        => view = "InitialRoleChoice" /\ userRole = "null"

C3_CallbackEndsReady ==
    last \in {"AuthCallbackUser",
              "SignInResolvedCustomToken", "SignInResolvedAnonymous",
              "SignInRejectedCustomToken", "SignInRejectedAnonymous"}
        => isAuthReady

\* C4: whenever the view is not EventDetails, no selected event is held.
\* The header button leaves EventDetails without clearing selectedEvent.
C4_SelectedOnlyInDetails ==
    view # "EventDetails" => selectedEvent = <<>>

\* C5: when the operation fails on its first k invocations and succeeds on the
\* next one, withRetry returns that invocation's value, the operation has been
\* invoked k + 1 times, and exactly k delays were taken, the i-th of them
\* 2^(i-1) * 1000 ms.
C5_SucceedsAfterFailures ==
    LET t == tasks[1]
        n == Len(t.log)
    IN  (n >= 1 /\ t.log[n] \in Results /\ \A j \in 1..(n - 1) : t.log[j] \in Errors)
          => /\ t.pc = "returned"
             /\ t.outcome = t.log[n]
             /\ t.calls = n
             /\ Len(t.delays) = n - 1
             /\ \A j \in 1..(n - 1) : t.delays[j] = (2 ^ (j - 1)) * 1000

C5_Witness ==
    /\ tasks[1].max = 4 /\ tasks[1].pc = "returned"
    /\ tasks[1].log = <<"e1", "e2", "e1", "r2">>
    /\ tasks[1].delays = <<1000, 2000, 4000>>

\* C6: when the operation fails on every invocation, withRetry has invoked it
\* max times when it settles, it throws the error of the last invocation as
\* it is, and it takes no delay after that failure (max - 1 delays in all);
\* until then it has not settled.
C6_ThrowsLastError ==
    LET t == tasks[1]
        n == Len(t.log)
    IN  (t.max >= 1 /\ n >= 1 /\ \A j \in 1..n : t.log[j] \in Errors)
          => /\ n <= t.max
             /\ n < t.max => t.pc \in {"sleep", "call"}
             /\ n = t.max => /\ t.pc = "threw"
                             /\ t.outcome = t.log[n]
                             /\ t.calls = t.max
                             /\ Len(t.delays) = t.max - 1

C6_Witness ==
    /\ tasks[1].max = 3 /\ tasks[1].pc = "threw"
    /\ tasks[1].log = <<"e1", "e1", "e2">> /\ tasks[1].outcome = "e2"
    /\ tasks[1].calls = 3 /\ tasks[1].delays = <<1000, 2000>>

\* C7, as stated: for every seed title T, when the snapshot holds a live event
\* titled T the merged list holds exactly one entry titled T, and that entry
\* is the live one.
C7_ExactlyOneTitled ==
    \A m \in 1..Len(MOCK_EVENTS) :
        LET T == MOCK_EVENTS[m].title
            titled == SelectSeq(events, LAMBDA e : e.title = T)
        IN  (\E k \in 1..Len(fetchedEvents) : fetchedEvents[k].title = T)
              => /\ Len(titled) = 1
                 /\ \E k \in 1..Len(fetchedEvents) : fetchedEvents[k] = titled[1]

\* C7, as the code has it: for every seed title T, when the snapshot holds a
\* live event titled T the merged list holds no seed entry titled T; its
\* entries titled T are the snapshot's events titled T, in the snapshot's
\* order: exactly one entry when the snapshot holds exactly one such event.
C7_SeedSuppressed ==
    \A m \in 1..Len(MOCK_EVENTS) :
        LET T == MOCK_EVENTS[m].title
        IN  (\E k \in 1..Len(fetchedEvents) : fetchedEvents[k].title = T)
              => /\ SelectSeq(events, LAMBDA e : e.title = T)
                      = SelectSeq(fetchedEvents, LAMBDA e : e.title = T)
                 /\ \A k \in 1..Len(events) : events[k] # MOCK_EVENTS[m]

C7_Witness ==
    /\ last = "EventsSnapshot"
    /\ Len(fetchedEvents) = 2
    /\ fetchedEvents[1].title = "Quiz" /\ fetchedEvents[2].title = "Sports Day"
    /\ Len(SelectSeq(events, LAMBDA e : e.title = "Sports Day")) = 1

\* C8: once an events snapshot is handled, the events in memory are the merge
\* of the seed list and that snapshot alone: the seed events whose title no
\* snapshot event has, in seed order, then the snapshot's events. The list in
\* memory before plays no part, so the same snapshot gives the same list and
\* a seed event is back once its title is gone from the snapshot.
C8_EventsAreMergeOfSnapshot ==
    last = "EventsSnapshot"
        => events = SelectSeq(MOCK_EVENTS,
                              LAMBDA s : \A k \in 1..Len(fetchedEvents) :
                                            fetchedEvents[k].title # s.title)
                      \o fetchedEvents

C8_Witness ==
    /\ last = "EventsSnapshot"
    /\ "1" \notin prevSeeds
    /\ fetchedEvents # <<>>
    /\ events[1] = MOCK_EVENTS[1]

C10_IncompleteNeverWrites ==
    [][ /\ ( \/ /\ last' = "AddEventSubmit"
                /\ (form.title = "" \/ form.date = <<>> \/ form.description = "")
             \/ /\ last' = "NoticeSubmit"
                /\ form.noticeText = ""
             \/ /\ last' = "ScoresSubmit"
                /\ form.selectedEventId = "" )
            => UNCHANGED <<tasks, store, clock>>
        /\ \A k \in 1..Len(tasks') :
              tasks'[k].kind = "scores" => tasks'[k].payload.ref # "" ]_vars

C10_Witness ==
    /\ last = "AddEventSubmit"
    /\ form.kind = "AddEvent" /\ form.title # "" /\ form.date = <<>>
    /\ form.message = "Please fill in all fields."
    /\ tasks = <<>> /\ clock = 0

\* C11: in every state where renderView reaches its switch, what the switch
\* decides for a role and a target view is fixed by the two alone: the view's
\* component for a Teacher on every view, and for a Student on every view but
\* AddEvent and AddScores. The tests on the store handle never decide, the
\* handle being set in every such state.
C11_GateDecidesByRoleAndView ==
    (error = "null" /\ isAuthReady)
        => \A role \in Roles, target \in Views :
             (RenderView(error, isAuthReady, target, role, db) = target)
                 <=> (role = "Teacher" \/ target \notin {"AddEvent", "AddScores"})

C11_Witness ==
    /\ OnScreen("StudentDashboard") /\ userRole = "Student"
    /\ RenderView(error, isAuthReady, "AddScores", userRole, db) = "Access Denied"
    /\ RenderView(error, isAuthReady, "NoticeBoard", userRole, db) = "NoticeBoard"

\* C12: once App is unmounted, whether disposed of or unmounted by React after
\* an onSnapshot call of the effect threw, no listener it opened is still open.
\* The cleanup exists only when all three calls returned: a listener opened
\* before the call that threw is never unsubscribed.
C12_NoListenerOpenAfterTeardown ==
    ~mounted => \A l \in listeners : ~IsOpen(l)

\* C13: at most one listener is open per collection; no listener is
\* unsubscribed more than once; a step that opens a listener for a collection
\* leaves every earlier listener of that collection unsubscribed; and an
\* auth-state callback that runs when the session is already ready opens no
\* listener.
C13_OneListenerPerCollection ==
    [][ /\ \A c \in Collections :
              Cardinality({l \in listeners' : l.coll = c /\ IsOpen(l)}) <= 1
        /\ \A l \in listeners' : l.unsubs <= 1
        /\ \A l \in listeners', l2 \in listeners' :
              (l.coll = l2.coll /\ l2.run < l.run) => l2.unsubs >= 1
        /\ ( /\ isAuthReady
             /\ last' \in {"AuthCallbackUser", "AuthCallbackNull",
                           "SignInResolvedCustomToken", "SignInResolvedAnonymous",
                           "SignInRejectedCustomToken", "SignInRejectedAnonymous"} )
            => listeners' = listeners ]_vars

C13_Witness ==
    /\ last = "AuthCallbackNull" /\ isAuthReady /\ mounted
    /\ \A c \in Collections : Cardinality({l \in listeners : l.coll = c /\ IsOpen(l)}) = 1
    /\ Cardinality(listeners) = 3

\* C14: while the session is not ready or the store handle is not set, there
\* is no listener, and a step that leaves the program in such a state (the
\* effect runs after it when db changed) opens none and leaves the error as it
\* was, but for the error the initialization's own catch sets.
C14_NoListenerUnlessReadyWithHandle ==
    [][ ~(db' /\ isAuthReady')
          => /\ listeners' = {}
             /\ last' # "InitFail" => error' = error ]_vars

C14_Witness ==
    /\ last = "InitOk" /\ db /\ ~isAuthReady
    /\ listeners = {} /\ error = "null"

\* C15: after the error callback of one listener, while App is mounted, the
\* listeners of the other collections are still open and the view is still
\* what renderView shows. renderView shows the error message in place of every
\* view from then on.
C15_OtherCollectionsStillShown ==
    \A l \in listeners :
        (mounted /\ l.failed)
            => /\ \A l2 \in listeners : (l2.run = l.run /\ ~l2.failed) => IsOpen(l2)
               /\ Screen = view

C17_DataChangesOnlyBySnapshot ==
    [][ /\ events' # events => last' = "EventsSnapshot"
        /\ notices' # notices => last' = "NoticesSnapshot"
        /\ scores' # scores => last' = "ScoresSnapshot" ]_vars

\* C18: once userId is set, no later call of the auth-state observer changes
\* it to another value.
C18_UserIdSetOnce ==
    [][ userId # "null" => userId' = userId ]_vars

\* C19: after an events snapshot the list in memory is, first, the seed
\* events whose title no live event of the snapshot has, in the order of the
\* seed list, and then every live event of the snapshot in the order the
\* snapshot delivered them; the list is not sorted again.
C19_SeedsThenLiveAsDelivered ==
    last = "EventsSnapshot"
        => LET n == Len(events) - Len(fetchedEvents)
               SeedAt(k) == CHOOSE m \in 1..Len(MOCK_EVENTS) : MOCK_EVENTS[m] = events[k]
               LiveTitle(t) == \E k \in 1..Len(fetchedEvents) : fetchedEvents[k].title = t
           IN  /\ n >= 0
               /\ \A k \in 1..Len(fetchedEvents) : events[n + k] = fetchedEvents[k]
               /\ \A k \in 1..n :
                     /\ \E m \in 1..Len(MOCK_EVENTS) : MOCK_EVENTS[m] = events[k]
                     /\ ~LiveTitle(events[k].title)
               /\ \A j, k \in 1..n : j < k => SeedAt(j) < SeedAt(k)
               /\ \A m \in 1..Len(MOCK_EVENTS) :
                     ~LiveTitle(MOCK_EVENTS[m].title)
                         => \E k \in 1..n : events[k] = MOCK_EVENTS[m]

\* two live events delivered latest first after seed events that are later
\* than both: the list is in date order neither way
C19_Witness ==
    /\ last = "EventsSnapshot"
    /\ Len(fetchedEvents) = 2 /\ Len(events) > 2
    /\ DateKey(fetchedEvents[1].date) > DateKey(fetchedEvents[2].date)
    /\ events[Len(events)] = fetchedEvents[2]
    /\ DateKey(events[Len(events) - 2].date) > DateKey(events[Len(events) - 1].date)
    /\ DateKey(events[1].date) < DateKey(events[Len(events) - 2].date)

\* C20: when the write of a form has failed on its last retry, the failure is
\* handled in the form that waits for it: what was entered in the form stays
\* as it was, loading is false and the form shows its failure message; the
\* global error and the current view do not change. A form that no longer
\* waits for the write is left as it is.
C20_WriteFailureHandledLocally ==
    [][ (last' = "WriteRejected" /\ Len(tasks') < Len(tasks))
          => LET gone == {tasks[k] : k \in 1..Len(tasks)} \ {tasks'[k] : k \in 1..Len(tasks')}
                 t == CHOOSE x \in gone : TRUE
                 text == CASE t.kind = "event" -> "Failed to add event. Please try again."
                           [] t.kind = "scores" -> "Failed to publish scores. Please try again."
                           [] t.kind = "notice" -> "Failed to send notice. Please try again."
                 waiting == /\ form.kind \in {"AddEvent", "AddScores", "NoticeBoard"}
                            /\ form.loading /\ form.stamp = t.payload.stamp
             IN  /\ Cardinality(gone) = 1
                 /\ error' = error /\ view' = view
                 /\ IF waiting
                    THEN /\ form'.loading = FALSE /\ form'.message = text
                         /\ [form' EXCEPT !.loading = TRUE, !.message = form.message] = form
                    ELSE form' = form ]_vars

C20_Witness ==
    /\ last = "WriteRejected" /\ tasks = <<>>
    /\ view = "AddEvent" /\ form.kind = "AddEvent"
    /\ form.title # "" /\ form.date # <<>> /\ ~form.loading
    /\ form.message = "Failed to add event. Please try again."
    /\ error = "null" /\ store.events = {}

\* C21: every write started through withRetry finishes, with a success or by
\* failing at its last invocation, whatever navigation, logout or teardown
\* happens meanwhile, when the store answers and the timers fire; until then
\* it stays in progress (nothing cancels it), and its operation is invoked at
\* most maxRetries times.
C21_WritesFinish ==
    /\ \A s \in 1..MaxSubmits :
          (\E k \in 1..Len(tasks) : tasks[k].payload.stamp = s)
              ~> ~(\E k \in 1..Len(tasks) : tasks[k].payload.stamp = s)
    /\ [](\A k \in 1..Len(tasks) : tasks[k].calls <= tasks[k].max)
    /\ [][ \A k \in 1..Len(tasks) :
              (\A j \in 1..Len(tasks') : tasks'[j].payload.stamp # tasks[k].payload.stamp)
                  => /\ tasks[k].pc = "call"
                     /\ \/ last' = "WriteResolved"
                        \/ last' = "WriteRejected" /\ tasks[k].calls = tasks[k].max ]_vars

\* a notice whose write is in its last invocation after the Teacher has logged
\* out
C21_Witness ==
    /\ userRole = "null" /\ view = "InitialRoleChoice"
    /\ Len(tasks) = 1 /\ tasks[1].pc = "call" /\ tasks[1].calls = DefaultMaxRetries

\* C22: once the initialization of the store and the identity provider has
\* failed, the error is set and stays set, the session is not ready and no
\* listener has been opened, in that state and in every state after it.
C22_InitFailureIsTerminal ==
    pcInit = "failed"
        => /\ error = "Failed to initialize Firebase services."
           /\ ~isAuthReady
           /\ listeners = {}

\* the failure came after setDb, and a step was taken after it
C22_Witness ==
    /\ pcInit = "failed" /\ db /\ last = "Unmount"
    /\ error # "null" /\ listeners = {}

\* C23: "Go to Event Details" pressed on the calendar showing month M of year
\* Y moves the view to EventDetails with, as payload, exactly the events in
\* memory whose date lies in month M of year Y, none missing and none extra,
\* and EventDetails has them in ascending order of date.
C23_DetailsAreEventsOfMonth ==
    [][ last' = "GoToDetails"
          => LET shown == selectedEvent'[1]
                 dated == SelectSeq(events,
                                    LAMBDA e : e.date[1] * 12 + (e.date[2] - 1) = calMonth)
             IN  /\ view' = "EventDetails"
                 /\ Len(shown) = Len(dated)
                 /\ {shown[k] : k \in 1..Len(shown)} = {dated[k] : k \in 1..Len(dated)}
                 /\ \A j, k \in 1..Len(shown) :
                       j < k => DateKey(shown[j].date) <= DateKey(shown[k].date) ]_vars

\* C24: the view agrees with the role: on TeacherDashboard, AddEvent and
\* AddScores the role is Teacher; on StudentDashboard, ViewResults and
\* StudentProfile the role is Student; with no role the view is
\* InitialRoleChoice or Login.
C24_ViewAgreesWithRole ==
    /\ view \in {"TeacherDashboard", "AddEvent", "AddScores"} => userRole = "Teacher"
    /\ view \in {"StudentDashboard", "ViewResults", "StudentProfile"} => userRole = "Student"
    /\ userRole = "null" => view \in {"InitialRoleChoice", "Login"}

\* a Teacher back on the dashboard from the event details, and a Student
\* there would be on the other one
C24_Witness ==
    /\ last = "DetailsBack" /\ userRole = "Teacher" /\ view = "TeacherDashboard"
    /\ OnScreen("TeacherDashboard")

\* C25: a write to the store (an event or a notice added, a score publication
\* set) is started only in a state where the role is Teacher: no step taken
\* by a Student, or with no role, starts one.
C25_WritesStartedByTeacherOnly ==
    [][ (Len(tasks') > Len(tasks) \/ clock' # clock) => userRole = "Teacher" ]_vars

\* a Teacher's notice is being written while a Student reads the notice board
C25_Witness ==
    /\ userRole = "Student" /\ OnScreen("NoticeBoard")
    /\ Len(tasks) = 1 /\ tasks[1].kind = "notice" /\ tasks[1].pc = "call"

====
